---- MODULE Spec2Model ----
(***************************************************************************)
(* Runtime value system of the Monkey interpreter (src/src/object.rs).     *)
(*                                                                         *)
(* Values live in boxes (ObjectRef = Box<dyn Object>): the model keeps a   *)
(* heap of cells, one per box, and the evaluator's bindings as slots that  *)
(* own one box each.  Text (String, rendering output) is a sequence of     *)
(* bytes.  A 64-bit machine word is four 16-bit limbs, least significant   *)
(* first; an i64 is its two's complement bit pattern in that form.         *)
(***************************************************************************)
EXTENDS Integers, Sequences, FiniteSets, TLC

(***************************************************************************)
(* 64-bit words                                                            *)
(***************************************************************************)

\* One limb holds 16 bits; a word is <<l0, l1, l2, l3>>, value sum l_i * 2^(16 i).
Limb == 2 ^ 16

Half == 2 ^ 15

Limbs == 1..4

Zero64 == <<0, 0, 0, 0>>

One64 == <<1, 0, 0, 0>>

\* Bitwise exclusive or of two n-bit numbers.
RECURSIVE XorBits(_, _, _)
XorBits(a, b, n) ==
    IF n = 0 THEN 0
    ELSE (((a % 2) + (b % 2)) % 2) + 2 * XorBits(a \div 2, b \div 2, n - 1)

\* u64 ^ u64
Xor64(a, b) ==
    <<XorBits(a[1], b[1], 16), XorBits(a[2], b[2], 16),
      XorBits(a[3], b[3], 16), XorBits(a[4], b[4], 16)>>

\* u64::wrapping_add
Add64(a, b) ==
    LET s1 == a[1] + b[1]
        s2 == a[2] + b[2] + (s1 \div Limb)
        s3 == a[3] + b[3] + (s2 \div Limb)
        s4 == a[4] + b[4] + (s3 \div Limb)
    IN  <<s1 % Limb, s2 % Limb, s3 % Limb, s4 % Limb>>

\* The carry out of bit 63 of a + b (1 when the sum reaches 2^64).
Carry64(a, b) ==
    LET s1 == a[1] + b[1]
        s2 == a[2] + b[2] + (s1 \div Limb)
        s3 == a[3] + b[3] + (s2 \div Limb)
        s4 == a[4] + b[4] + (s3 \div Limb)
    IN  s4 \div Limb

\* u64::rotate_left(r), 0 <= r < 64
Rotl64(a, r) ==
    LET q == r \div 16
        s == r % 16
        \* limb i of a rotated left by whole limbs
        w(i) == a[((i + 7 - q) % 4) + 1]
        l(i) == ((w(i) * (2 ^ s)) % Limb) + (w(((i + 2) % 4) + 1) \div (2 ^ (16 - s)))
    IN  <<l(1), l(2), l(3), l(4)>>

\* !x + 1 : two's complement negation
Neg64(a) ==
    Add64(<<(Limb - 1) - a[1], (Limb - 1) - a[2], (Limb - 1) - a[3], (Limb - 1) - a[4]>>,
          One64)

(***************************************************************************)
(* std::collections::hash_map::DefaultHasher: SipHash-1-3                  *)
(***************************************************************************)

\* The little-endian u64 of eight bytes.
WordLE(b) ==
    <<b[1] + 256 * b[2], b[3] + 256 * b[4], b[5] + 256 * b[6], b[7] + 256 * b[8]>>

\* One SipRound over the state <<v0, v1, v2, v3>>.
SipRound(v) ==
    LET a0 == Add64(v[1], v[2])
        a1 == Xor64(Rotl64(v[2], 13), a0)
        b0 == Rotl64(a0, 32)
        a2 == Add64(v[3], v[4])
        a3 == Xor64(Rotl64(v[4], 16), a2)
        c0 == Add64(b0, a3)
        c3 == Xor64(Rotl64(a3, 21), c0)
        c2 == Add64(a2, a1)
        c1 == Xor64(Rotl64(a1, 17), c2)
    IN  <<c0, c1, Rotl64(c2, 32), c3>>

\* Absorb one message word: v3 ^= m; one c-round; v0 ^= m.
SipCompress(v, m) ==
    LET r == SipRound(<<v[1], v[2], v[3], Xor64(v[4], m)>>)
    IN  <<Xor64(r[1], m), r[2], r[3], r[4]>>

\* The last word: the bytes left over, zero padded, and the length in the top byte.
SipTail(rest, len) ==
    LET byte(i) == IF i <= Len(rest) THEN rest[i] ELSE 0
    IN  WordLE(<<byte(1), byte(2), byte(3), byte(4), byte(5), byte(6), byte(7),
                 len % 256>>)

RECURSIVE SipAbsorb(_, _, _)
SipAbsorb(v, bytes, len) ==
    IF Len(bytes) >= 8
    THEN SipAbsorb(SipCompress(v, WordLE(SubSeq(bytes, 1, 8))),
                   SubSeq(bytes, 9, Len(bytes)), len)
    ELSE SipCompress(v, SipTail(bytes, len))

\* SipHasher13::finish over everything written: v2 ^= 0xff, three d-rounds, fold.
SipFinish(v) ==
    LET f == SipRound(SipRound(SipRound(
                 <<v[1], v[2], Xor64(v[3], <<255, 0, 0, 0>>), v[4]>>)))
    IN  Xor64(Xor64(f[1], f[2]), Xor64(f[3], f[4]))

\* A hasher with keys k0, k1 fed `bytes`, finished.
\* The constants spell "somepseudorandomlygeneratedbytes".
SipHash13(k0, k1, bytes) ==
    LET v == << Xor64(k0, <<25973, 28787, 28005, 29551>>),
                Xor64(k1, <<28525, 28260, 29281, 25711>>),
                Xor64(k0, <<29281, 28261, 26469, 27769>>),
                Xor64(k1, <<25971, 31092, 25698, 29797>>) >>
    IN  SipFinish(SipAbsorb(v, bytes, Len(bytes)))

(***************************************************************************)
(* Text                                                                    *)
(***************************************************************************)

\* Vec<String>::join(sep)
RECURSIVE Join(_, _)
Join(parts, sep) ==
    IF parts = <<>> THEN <<>>
    ELSE IF Len(parts) = 1 THEN parts[1]
    ELSE parts[1] \o sep \o Join(Tail(parts), sep)

\* The quotient and remainder of a u64 by 10, most significant limb first.
DivMod10(a) ==
    LET c4 == a[4]
        c3 == (c4 % 10) * Limb + a[3]
        c2 == (c3 % 10) * Limb + a[2]
        c1 == (c2 % 10) * Limb + a[1]
    IN  [quot |-> <<c1 \div 10, c2 \div 10, c3 \div 10, c4 \div 10>>, rem |-> c1 % 10]

RECURSIVE DecimalDigits(_)
DecimalDigits(a) ==
    IF a = Zero64 THEN <<>>
    ELSE LET d == DivMod10(a) IN DecimalDigits(d.quot) \o <<48 + d.rem>>

\* u64 in decimal, no leading zeros.
U64_to_string(a) == IF a = Zero64 THEN <<48>> ELSE DecimalDigits(a)

\* i64::to_string: a "-" before the digits of a negative number.
\* An i64 is [neg, mag]: its sign and its magnitude (a u64, at most 2^63).
I64_to_string(n) == IF n.neg THEN <<45>> \o U64_to_string(n.mag) ELSE U64_to_string(n.mag)

\* bool::to_string: "true" or "false"
bool_to_string(b) == IF b THEN <<116, 114, 117, 101>> ELSE <<102, 97, 108, 115, 101>>

\* `n as u64` for an i64: the two's complement bit pattern.
I64_as_u64(n) == IF n.neg THEN Neg64(n.mag) ELSE n.mag

(***************************************************************************)
(* ObjectType                                                              *)
(***************************************************************************)

ObjectTypes ==
    {"Integer", "Null", "Boolean", "ReturnValue", "Error",
     "Function", "StringObj", "Builtin", "Array", "Hash"}

\* ObjectType::as_str
as_str(t) ==
    CASE t = "Integer" -> "INTEGER"
      [] t = "Null" -> "NULL"
      [] t = "Boolean" -> "BOOLEAN"
      [] t = "ReturnValue" -> "RETURN_VALUE"
      [] t = "Error" -> "ERROR"
      [] t = "Function" -> "FUNCTION"
      [] t = "StringObj" -> "STRING"
      [] t = "Builtin" -> "BUILTIN"
      [] t = "Array" -> "ARRAY"
      [] t = "Hash" -> "HASH"

\* Object::object_type, by the struct the box holds.
object_type(o) ==
    CASE o.struct = "Integer" -> "Integer"
      [] o.struct = "Null" -> "Null"
      [] o.struct = "Boolean" -> "Boolean"
      [] o.struct = "ReturnValue" -> "ReturnValue"
      [] o.struct = "Error" -> "Error"
      [] o.struct = "Function" -> "Function"
      [] o.struct = "StringObj" -> "StringObj"
      [] o.struct = "Builtin" -> "Builtin"
      [] o.struct = "Array" -> "Array"
      [] o.struct = "Hash" -> "Hash"

(***************************************************************************)
(* The values the evaluator builds                                         *)
(***************************************************************************)

\* Bounds of the model: the cells of the heap, the evaluator's bindings, the
\* elements of an Array, the pairs of a Hash, the scopes, the values bound.
MaxAddr == 6

MaxSlots == 2

MaxElems == 2

MaxPairs == 2

MaxEnv == 2

MaxBind == 1

Addr == 1..MaxAddr

Slots == 1..MaxSlots

Envs == 1..MaxEnv

\* Names bound in a scope, and the values bound to them (0: unbound).
Names == {"x"}

Bindings == 0..MaxBind

\* States of the process outside the values (the thread's RandomState keys).
Ambients == {0, 1}

I64(neg, mag) == [neg |-> neg, mag |-> mag]

Integer(n) == [struct |-> "Integer", value |-> n]

Boolean(b) == [struct |-> "Boolean", value |-> b]

StringObj(t) == [struct |-> "StringObj", value |-> t]

\* "", "a", "b", "ab", "Hello World", "My name is johnny"
Texts ==
    {<<>>, <<97>>, <<98>>, <<97, 98>>,
     <<72, 101, 108, 108, 111, 32, 87, 111, 114, 108, 100>>,
     <<77, 121, 32, 110, 97, 109, 101, 32, 105, 115, 32, 106, 111, 104, 110, 110, 121>>}

\* Magnitudes: 0, 1, 2, 42, 2^16, 2^32, 2^63 - 1, 2^63
Magnitudes == {Zero64, One64, <<2, 0, 0, 0>>, <<42, 0, 0, 0>>, <<0, 1, 0, 0>>, <<0, 0, 1, 0>>,
          <<Limb - 1, Limb - 1, Limb - 1, Half - 1>>}

NegMagnitudes == {One64, <<2, 0, 0, 0>>, <<0, 1, 0, 0>>,
           <<Limb - 1, Limb - 1, Limb - 1, Half - 1>>, <<0, 0, 0, Half>>}

\* Every i64 of the model: i64::MIN..=i64::MAX sampled at its edges.
AllIntegers == {Integer(I64(FALSE, m)) : m \in Magnitudes} \cup {Integer(I64(TRUE, m)) : m \in NegMagnitudes}

Booleans == {Boolean(TRUE), Boolean(FALSE)}

AllStrings == {StringObj(t) : t \in Texts}

\* Integer { value: 0 }, { value: 1 }, { value: 2 }
Int0 == Integer(I64(FALSE, Zero64))

Int1 == Integer(I64(FALSE, One64))

Int2 == Integer(I64(FALSE, <<2, 0, 0, 0>>))

Int42 == Integer(I64(FALSE, <<42, 0, 0, 0>>))

IntMinus1 == Integer(I64(TRUE, One64))

StrA == StringObj(<<97>>)

StrB == StringObj(<<98>>)

NullObj == [struct |-> "Null"]

\* Error { message: "boom" }
ErrorObj == [struct |-> "Error", message |-> <<98, 111, 111, 109>>]

BuiltinObj == [struct |-> "Builtin", func |-> 1]

\* Array { elements: vec![] }
EmptyArray == [struct |-> "Array", elements |-> <<>>]

\* Hash { pairs: HashMap::new() }
EmptyHash == [struct |-> "Hash", pairs |-> <<>>]

\* fn(x) { } closing over scope env: the AST nodes carry their debug text.
FunctionObj(env) ==
    [struct |-> "Function", parameters |-> <<[debug |-> <<120>>]>>,
     body |-> [debug |-> <<123, 32, 125>>], env |-> env]

(***************************************************************************)
(* Object::inspect                                                         *)
(*                                                                         *)
(* A heap h maps each address to the struct its box holds:                 *)
(*   [struct |-> "Integer", value |-> i64]                                 *)
(*   [struct |-> "Null"]                                                   *)
(*   [struct |-> "Boolean", value |-> BOOLEAN]                             *)
(*   [struct |-> "ReturnValue", value |-> address]                         *)
(*   [struct |-> "Error", message |-> text]                                *)
(*   [struct |-> "Function", parameters |-> Seq(Expr), body |-> Stmt,      *)
(*                           env |-> Environment]                          *)
(*   [struct |-> "StringObj", value |-> text]                              *)
(*   [struct |-> "Builtin", func |-> fn pointer]                           *)
(*   [struct |-> "Array", elements |-> Seq(address)]                       *)
(*   [struct |-> "Hash", pairs |-> HashMap]                                *)
(* and [struct |-> "Free"] where no box is allocated.  A HashMap is the    *)
(* sequence of its entries [k |-> HashKey, v |-> HashPair] in the order    *)
(* its table yields them; a HashPair is [key |-> address, value |->        *)
(* address].  `ambient` stands for process state outside the value (the    *)
(* thread's RandomState keys, addresses).                                  *)
(***************************************************************************)

FreeCell == [struct |-> "Free"]

\* Faulty variant: the order of a visit depends on state outside the map.
HashMap_iter_reseeded(pairs, ambient) ==
    IF ambient = 0 \/ Len(pairs) < 2 THEN pairs ELSE Tail(pairs) \o <<Head(pairs)>>

\* (&HashMap).into_iter(): the entries in table order; nothing outside the map decides it.
HashMap_iter(pairs, ambient) == pairs

\* format!("{:?}", node) of an AST node; the node carries its debug text.
Debug_fmt(node) == node.debug

RECURSIVE inspect(_, _, _)
RECURSIVE Array_inspect(_, _, _)
RECURSIVE Hash_inspect(_, _, _)
RECURSIVE ReturnValue_inspect(_, _, _)

Integer_inspect(o) == I64_to_string(o.value)

\* "null"
Null_inspect(o) == <<110, 117, 108, 108>>

Boolean_inspect(o) == bool_to_string(o.value)

\* Faulty variant: the wrapper shows in the rendering ("return " before the inner text).
ReturnValue_inspect_tagged(h, o, ambient) ==
    <<114, 101, 116, 117, 114, 110, 32>> \o inspect(h, o.value, ambient)

ReturnValue_inspect(h, o, ambient) == inspect(h, o.value, ambient)

Error_inspect(o) == o.message

\* format!("fn({}) {:?}", params.join(", "), self.body)
Function_inspect(o) ==
    <<102, 110, 40>>
    \o Join([i \in 1..Len(o.parameters) |-> Debug_fmt(o.parameters[i])], <<44, 32>>)
    \o <<41, 32>> \o Debug_fmt(o.body)

\* format!("\"{}\"", self.value)
StringObj_inspect(o) == <<34>> \o o.value \o <<34>>

\* "builtin function"
Builtin_inspect(o) ==
    <<98, 117, 105, 108, 116, 105, 110, 32, 102, 117, 110, 99, 116, 105, 111, 110>>

\* Faulty variant: the elements joined by "," alone.
Array_inspect_nospace(h, o, ambient) ==
    <<91>>
    \o Join([i \in 1..Len(o.elements) |-> inspect(h, o.elements[i], ambient)], <<44>>)
    \o <<93>>

\* format!("[{}]", elements.join(", "))
Array_inspect(h, o, ambient) ==
    <<91>>
    \o Join([i \in 1..Len(o.elements) |-> inspect(h, o.elements[i], ambient)], <<44, 32>>)
    \o <<93>>

\* format!("{{{}}}", pairs.join(", ")), each pair format!("{}: {}", key, value)
Hash_inspect(h, o, ambient) ==
    LET it == HashMap_iter(o.pairs, ambient)
    IN  <<123>>
        \o Join([i \in 1..Len(it) |->
                    inspect(h, it[i].v.key, ambient) \o <<58, 32>>
                    \o inspect(h, it[i].v.value, ambient)], <<44, 32>>)
        \o <<125>>

\* The dynamic dispatch of inspect through Box<dyn Object>.  A cell that holds
\* no box has no rendering; no box refers to one.
inspect(h, a, ambient) ==
    LET o == h[a]
    IN  CASE o.struct = "Integer" -> Integer_inspect(o)
          [] o.struct = "Null" -> Null_inspect(o)
          [] o.struct = "Boolean" -> Boolean_inspect(o)
          [] o.struct = "ReturnValue" -> ReturnValue_inspect(h, o, ambient)
          [] o.struct = "Error" -> Error_inspect(o)
          [] o.struct = "Function" -> Function_inspect(o)
          [] o.struct = "StringObj" -> StringObj_inspect(o)
          [] o.struct = "Builtin" -> Builtin_inspect(o)
          [] o.struct = "Array" -> Array_inspect(h, o, ambient)
          [] o.struct = "Hash" -> Hash_inspect(h, o, ambient)
          [] OTHER -> <<>>

(***************************************************************************)
(* Hashable::hash_key                                                      *)
(***************************************************************************)

\* Faulty variant: the comparison inverted.
HashKey_ne(a, b) == a.value # b.value

\* #[derive(PartialEq)] on HashKey
HashKey_eq(a, b) == a.value = b.value

\* Faulty variant: the magnitude instead of the bit pattern (unsigned_abs).
Integer_hash_key_abs(o) == [value |-> o.value.mag]

\* HashKey { value: self.value as u64 }
Integer_hash_key(o) == [value |-> I64_as_u64(o.value)]

\* Faulty variants: both branches 1; the branches swapped.
Boolean_hash_key_const(o) == [value |-> One64]

Boolean_hash_key_swapped(o) == [value |-> IF o.value THEN Zero64 ELSE One64]

\* let value = if self.value { 1 } else { 0 }
Boolean_hash_key(o) == [value |-> IF o.value THEN One64 ELSE Zero64]

\* Faulty variant: a hasher keyed as RandomState keys one, from the thread's keys.
RandomState_build_hasher(ambient) == [k0 |-> <<ambient, 0, 0, 0>>, k1 |-> Zero64]

\* DefaultHasher::new(): SipHasher13 with both keys zero, whatever the thread's
\* RandomState keys are.
DefaultHasher_new(ambient) == [k0 |-> Zero64, k1 |-> Zero64]

\* <str as Hash>::hash: the bytes, then 0xff.
str_hash(value) == value \o <<255>>

\* SipHash13 over the hashers and the texts of the model, computed once.
SipTable ==
    [k \in {<<a, 0, 0, 0>> : a \in Ambients} |->
        [t \in Texts |-> SipHash13(k, Zero64, str_hash(t))]]

\* hasher.write(...) of the text, then hasher.finish()
DefaultHasher_finish(hasher, text) ==
    IF hasher.k1 = Zero64 /\ hasher.k0 \in DOMAIN SipTable /\ text \in Texts
    THEN SipTable[hasher.k0][text]
    ELSE SipHash13(hasher.k0, hasher.k1, str_hash(text))

StringObj_hash_key(o, ambient) ==
    LET hasher == DefaultHasher_new(ambient)
    IN  [value |-> DefaultHasher_finish(hasher, o.value)]

\* The structs that implement Hashable.
Hashable(o) == o.struct \in {"Integer", "Boolean", "StringObj"}

hash_key(o, ambient) ==
    CASE o.struct = "Integer" -> Integer_hash_key(o)
      [] o.struct = "Boolean" -> Boolean_hash_key(o)
      [] o.struct = "StringObj" -> StringObj_hash_key(o, ambient)

(***************************************************************************)
(* Boxes: allocation, duplication, release                                 *)
(*                                                                         *)
(* A memory m is [heap |-> the boxes, scopes |-> the scopes that           *)
(* Environment handles refer to].                                          *)
(***************************************************************************)

Range(f) == {f[i] : i \in DOMAIN f}

Min(S) == CHOOSE x \in S : \A y \in S : x <= y

FreeAddrs(h) == {a \in Addr : h[a] = FreeCell}

\* Box::new(o): the value moves into a fresh cell.
Box_new(m, o) ==
    LET a == Min(FreeAddrs(m.heap))
    IN  [mem |-> [m EXCEPT !.heap[a] = o], addr |-> a]

\* The boxes a struct owns directly, in field order.
RECURSIVE PairBoxes(_)
PairBoxes(pairs) ==
    IF pairs = <<>> THEN <<>>
    ELSE <<pairs[1].v.key, pairs[1].v.value>> \o PairBoxes(Tail(pairs))

Owned(o) ==
    CASE o.struct = "ReturnValue" -> <<o.value>>
      [] o.struct = "Array" -> o.elements
      [] o.struct = "Hash" -> PairBoxes(o.pairs)
      [] OTHER -> <<>>

\* Every cell reached from box a through owned boxes.
RECURSIVE Reach(_, _)
Reach(h, a) == {a} \cup UNION {Reach(h, c) : c \in Range(Owned(h[a]))}

\* Dropping a box releases it and everything it owns.
drop_box(h, a) == [c \in Addr |-> IF c \in Reach(h, a) THEN FreeCell ELSE h[c]]

\* The value a box holds, with every owned box replaced by its own value.
RECURSIVE Tree(_, _)
Tree(h, a) ==
    LET o == h[a]
    IN  CASE o.struct = "ReturnValue" -> [o EXCEPT !.value = Tree(h, o.value)]
          [] o.struct = "Array" ->
                [o EXCEPT !.elements = [i \in 1..Len(o.elements) |-> Tree(h, o.elements[i])]]
          [] o.struct = "Hash" ->
                [o EXCEPT !.pairs =
                    [i \in 1..Len(o.pairs) |->
                        [k |-> o.pairs[i].k,
                         v |-> [key |-> Tree(h, o.pairs[i].v.key),
                                value |-> Tree(h, o.pairs[i].v.value)]]]]
          [] OTHER -> o

\* Addresses carry no meaning to the program.  After every operation the boxes
\* are renumbered in the order the bindings reach them, so that states that
\* differ only in where the allocator put a box are one state.
RECURSIVE Visit(_, _, _)
RECURSIVE VisitAll(_, _, _)
Visit(h, a, seen) ==
    IF a \in Range(seen) THEN seen ELSE VisitAll(h, Owned(h[a]), Append(seen, a))

VisitAll(h, as, seen) ==
    IF as = <<>> THEN seen ELSE VisitAll(h, Tail(as), Visit(h, Head(as), seen))

Compact(h, sl) ==
    LET order == VisitAll(h, SelectSeq(sl, LAMBDA a : a # 0), <<>>)
        at == [a \in 0..MaxAddr |->
                  IF \E i \in 1..Len(order) : order[i] = a
                  THEN CHOOSE i \in 1..Len(order) : order[i] = a ELSE 0]
        move(o) ==
            CASE o.struct = "ReturnValue" -> [o EXCEPT !.value = at[o.value]]
              [] o.struct = "Array" ->
                    [o EXCEPT !.elements = [i \in 1..Len(o.elements) |-> at[o.elements[i]]]]
              [] o.struct = "Hash" ->
                    [o EXCEPT !.pairs =
                        [i \in 1..Len(o.pairs) |->
                            [k |-> o.pairs[i].k,
                             v |-> [key |-> at[o.pairs[i].v.key],
                                    value |-> at[o.pairs[i].v.value]]]]]
              [] OTHER -> o
    IN  [heap |-> [a \in Addr |-> IF a <= Len(order) THEN move(h[order[a]]) ELSE FreeCell],
         slots |-> [s \in DOMAIN sl |-> at[sl[s]]],
         at |-> at]

RECURSIVE clone_box(_, _)
RECURSIVE Vec_clone(_, _)
RECURSIVE HashMap_clone(_, _)

\* Vec<ObjectRef>::clone: each element's clone(), which is clone_box, in order.
Vec_clone(m, elements) ==
    IF elements = <<>> THEN [mem |-> m, elements |-> <<>>]
    ELSE LET c == clone_box(m, Head(elements))
             r == Vec_clone(c.mem, Tail(elements))
         IN  [mem |-> r.mem, elements |-> <<c.addr>> \o r.elements]

\* #[derive(Clone)] on HashPair: key.clone(), value.clone()
HashPair_clone(m, p) ==
    LET k == clone_box(m, p.key)
        v == clone_box(k.mem, p.value)
    IN  [mem |-> v.mem, pair |-> [key |-> k.addr, value |-> v.addr]]

\* HashMap<HashKey, HashPair>::clone: the same table with every entry cloned.
HashMap_clone(m, pairs) ==
    IF pairs = <<>> THEN [mem |-> m, pairs |-> <<>>]
    ELSE LET c == HashPair_clone(m, pairs[1].v)
             r == HashMap_clone(c.mem, Tail(pairs))
         IN  [mem |-> r.mem, pairs |-> <<[k |-> pairs[1].k, v |-> c.pair]>> \o r.pairs]

\* Faulty variant: the clone is a scope of its own, a copy of the captured one.
Environment_clone_copy(m, env) ==
    LET e == (env % MaxEnv) + 1
    IN  [mem |-> [m EXCEPT !.scopes[e] = m.scopes[env]], env |-> e]

\* Environment::clone, as the specification has it: the handle is copied and the
\* scope it refers to is shared.
Environment_clone(m, env) == [mem |-> m, env |-> env]

\* #[derive(Clone)] on the structs with plain fields: a field-wise copy.
Plain_clone(m, o) == [mem |-> m, obj |-> o]

\* #[derive(Clone)] on ReturnValue
ReturnValue_clone(m, o) ==
    LET c == clone_box(m, o.value)
    IN  [mem |-> c.mem, obj |-> [o EXCEPT !.value = c.addr]]

\* #[derive(Clone)] on Function: parameters.clone(), body.clone(), env.clone()
Function_clone(m, o) ==
    LET e == Environment_clone(m, o.env)
    IN  [mem |-> e.mem, obj |-> [o EXCEPT !.env = e.env]]

\* Faulty variant: the element boxes shared with the original (a shallow copy).
Array_clone_shallow(m, o) == [mem |-> m, obj |-> o]

\* #[derive(Clone)] on Array
Array_clone(m, o) ==
    LET c == Vec_clone(m, o.elements)
    IN  [mem |-> c.mem, obj |-> [o EXCEPT !.elements = c.elements]]

\* #[derive(Clone)] on Hash
Hash_clone(m, o) ==
    LET c == HashMap_clone(m, o.pairs)
    IN  [mem |-> c.mem, obj |-> [o EXCEPT !.pairs = c.pairs]]

\* ObjectClone::clone_box: Box::new(self.clone()); Clone for ObjectRef is clone_box.
clone_box(m, a) ==
    LET o == m.heap[a]
        c == CASE o.struct = "ReturnValue" -> ReturnValue_clone(m, o)
               [] o.struct = "Function" -> Function_clone(m, o)
               [] o.struct = "Array" -> Array_clone(m, o)
               [] o.struct = "Hash" -> Hash_clone(m, o)
               [] OTHER -> Plain_clone(m, o)
    IN  Box_new(c.mem, c.obj)

(***************************************************************************)
(* HashMap<HashKey, HashPair>::insert                                      *)
(***************************************************************************)

\* The index of the entry whose key equals k, or 0.
HashMap_find(pairs, k) ==
    IF \E i \in 1..Len(pairs) : HashKey_eq(pairs[i].k, k)
    THEN Min({i \in 1..Len(pairs) : HashKey_eq(pairs[i].k, k)})
    ELSE 0

\* insert(k, v): an entry with an equal key keeps its place and takes the new
\* value; otherwise the entry lands at `place` in the table's order.
HashMap_insert(pairs, k, v, place) ==
    LET i == HashMap_find(pairs, k)
    IN  IF i # 0 THEN [pairs EXCEPT ![i].v = v]
        ELSE SubSeq(pairs, 1, place - 1) \o <<[k |-> k, v |-> v]>>
             \o SubSeq(pairs, place, Len(pairs))

(***************************************************************************)
(* The evaluator's view: bindings that own values                          *)
(***************************************************************************)

VARIABLES
    heap,     \* address -> the struct in that box, or FreeCell
    scopes,   \* Environment handle -> the bindings of that scope
    slots,    \* the evaluator's bindings: slot -> the box it owns, or 0
    origin,   \* slot -> the slot its value was cloned from, or 0
    out       \* what the last operation returned to the evaluator

vars == <<heap, scopes, slots, origin, out>>

None == [op |-> "none"]

Mem == [heap |-> heap, scopes |-> scopes]

\* Environment::get and Environment::set, as the specification has them: a
\* lookup and a binding in the scope the handle refers to.
Environment_get(m, env, name) == m.scopes[env][name]

Environment_set(m, env, name, v) == [m EXCEPT !.scopes[env][name] = v]

\* A slot's value changed hands: it is no clone, and nothing is a clone of it.
Forget(S) == [t \in Slots |-> IF t \in S \/ origin[t] \in S THEN 0 ELSE origin[t]]

Init ==
    /\ heap = [a \in Addr |-> FreeCell]
    /\ scopes = [e \in Envs |-> [n \in Names |-> 0]]
    /\ slots = [s \in Slots |-> 0]
    /\ origin = [s \in Slots |-> 0]
    /\ out = None

\* let s = <struct literal>;
NewValue(s, o) ==
    /\ slots[s] = 0
    /\ FreeAddrs(heap) # {}
    /\ \E b \in {Box_new(Mem, o)} :
       \E c \in {Compact(b.mem.heap, [slots EXCEPT ![s] = b.addr])} :
          heap' = c.heap /\ slots' = c.slots
    /\ origin' = Forget({s})
    /\ out' = None
    /\ UNCHANGED scopes

\* let s = ReturnValue { value: s };
WrapReturn(s) ==
    /\ slots[s] # 0
    /\ FreeAddrs(heap) # {}
    /\ \E b \in {Box_new(Mem, [struct |-> "ReturnValue", value |-> slots[s]])} :
       \E c \in {Compact(b.mem.heap, [slots EXCEPT ![s] = b.addr])} :
          heap' = c.heap /\ slots' = c.slots
    /\ origin' = Forget({s})
    /\ out' = None
    /\ UNCHANGED scopes

\* let s = Array { elements: vec![s] };
WrapArray(s) ==
    /\ slots[s] # 0
    /\ FreeAddrs(heap) # {}
    /\ \E b \in {Box_new(Mem, [struct |-> "Array", elements |-> <<slots[s]>>])} :
       \E c \in {Compact(b.mem.heap, [slots EXCEPT ![s] = b.addr])} :
          heap' = c.heap /\ slots' = c.slots
    /\ origin' = Forget({s})
    /\ out' = None
    /\ UNCHANGED scopes

\* The Array boxes and the Hash boxes reached through slot s.
ArraysOf(s) == IF slots[s] = 0 THEN {}
               ELSE {a \in Reach(heap, slots[s]) : heap[a].struct = "Array"}

HashesOf(s) == IF slots[s] = 0 THEN {}
               ELSE {a \in Reach(heap, slots[s]) : heap[a].struct = "Hash"}

\* What an in-place mutation of box a, reached through slot s, leaves behind.
Mutated(s, a, h) ==
    \E c \in {Compact(h, slots)} :
       /\ heap' = c.heap
       /\ slots' = c.slots
       /\ out' = [op |-> "mutate", slot |-> s, cell |-> c.at[a]]

\* array.elements.push(Box::new(o)), array reached through slot s
ArrayPush(s, a, o) ==
    /\ a \in ArraysOf(s)
    /\ Len(heap[a].elements) < MaxElems
    /\ FreeAddrs(heap) # {}
    /\ \E b \in {Box_new(Mem, o)} :
          Mutated(s, a, [b.mem.heap EXCEPT ![a].elements = Append(@, b.addr)])
    /\ UNCHANGED <<scopes, origin>>

\* array.elements[i] = Box::new(o): the old element is dropped.
ArraySet(s, a, i, o) ==
    /\ a \in ArraysOf(s)
    /\ i \in 1..Len(heap[a].elements)
    /\ \E h1 \in {drop_box(heap, heap[a].elements[i])} :
       \E b \in {Box_new([heap |-> h1, scopes |-> scopes], o)} :
          Mutated(s, a, [b.mem.heap EXCEPT ![a].elements[i] = b.addr])
    /\ UNCHANGED <<scopes, origin>>

\* array.elements.remove(i): the element is dropped.
ArrayRemove(s, a, i) ==
    /\ a \in ArraysOf(s)
    /\ i \in 1..Len(heap[a].elements)
    /\ \E es \in {heap[a].elements} :
          Mutated(s, a, [drop_box(heap, es[i]) EXCEPT
                            ![a].elements = SubSeq(es, 1, i - 1) \o SubSeq(es, i + 1, Len(es))])
    /\ UNCHANGED <<scopes, origin>>

\* hash.pairs.insert(key.hash_key(), HashPair { key, value }), hash reached through
\* slot s; insert returns the pair it replaced (`old`), which is dropped.  A new entry
\* lands at `place`.
HashInsert(s, a, key, value, place, ambient) ==
    /\ a \in HashesOf(s)
    /\ Hashable(key)
    /\ place \in 1..(Len(heap[a].pairs) + 1)
    /\ \E pairs \in {heap[a].pairs}, k \in {hash_key(key, ambient)} :
       \E i \in {HashMap_find(pairs, k)} :
          /\ i # 0 \/ Len(pairs) < MaxPairs
          /\ i # 0 => place = 1
          /\ \E h1 \in {IF i = 0 THEN heap
                        ELSE drop_box(drop_box(heap, pairs[i].v.key), pairs[i].v.value)} :
                /\ Cardinality(FreeAddrs(h1)) >= 2
                /\ \E bk \in {Box_new([heap |-> h1, scopes |-> scopes], key)} :
                   \E bv \in {Box_new(bk.mem, value)} :
                   \E c \in {Compact(
                               [bv.mem.heap EXCEPT
                                   ![a].pairs = HashMap_insert(
                                       pairs, k, [key |-> bk.addr, value |-> bv.addr], place)],
                               slots)} :
                      /\ heap' = c.heap
                      /\ slots' = c.slots
                      /\ out' = [op |-> "insert", slot |-> s, cell |-> c.at[a], key |-> k,
                                 pair |-> [key |-> key, value |-> value],
                                 old |-> IF i = 0 THEN None
                                         ELSE [key |-> Tree(heap, pairs[i].v.key),
                                               value |-> Tree(heap, pairs[i].v.value)]]
    /\ UNCHANGED <<scopes, origin>>

\* The cells clone_box(a) allocates: one per cell of the value.
RECURSIVE Size(_, _)
Size(h, a) ==
    LET cs == Owned(h[a])
        sum[i \in 0..Len(cs)] == IF i = 0 THEN 0 ELSE sum[i - 1] + Size(h, cs[i])
    IN  1 + sum[Len(cs)]

\* let t = s.clone();
CloneValue(s, t) ==
    /\ slots[s] # 0 /\ slots[t] = 0
    /\ Size(heap, slots[s]) <= Cardinality(FreeAddrs(heap))
    /\ \E b \in {clone_box(Mem, slots[s])} :
       \E c \in {Compact(b.mem.heap, [slots EXCEPT ![t] = b.addr])} :
          /\ heap' = c.heap
          /\ slots' = c.slots
          /\ scopes' = b.mem.scopes
    /\ origin' = [Forget({t}) EXCEPT ![t] = s]
    /\ out' = None

\* drop(s)
DropValue(s) ==
    /\ slots[s] # 0
    /\ \E c \in {Compact(drop_box(heap, slots[s]), [slots EXCEPT ![s] = 0])} :
          heap' = c.heap /\ slots' = c.slots
    /\ origin' = Forget({s})
    /\ out' = None
    /\ UNCHANGED scopes

\* s.inspect(); `again` tells a second call in a row on the same binding.
Inspect(s, ambient) ==
    /\ slots[s] # 0
    /\ out' = [op |-> "inspect", slot |-> s, text |-> inspect(heap, slots[s], ambient),
               again |-> (out.op = "inspect" /\ out.slot = s)]
    /\ UNCHANGED <<heap, scopes, slots, origin>>

\* s.hash_key(); `prev` is the call before it, if that was a hash_key too.
HashKeyOf(s, ambient) ==
    /\ slots[s] # 0
    /\ Hashable(heap[slots[s]])
    /\ out' = [op |-> "hash_key", slot |-> s, key |-> hash_key(heap[slots[s]], ambient),
               prev |-> IF out.op = "hash_key" THEN [slot |-> out.slot, key |-> out.key]
                        ELSE None]
    /\ UNCHANGED <<heap, scopes, slots, origin>>

\* The evaluator binds a name in the scope the Function of slot s captured.
Bind(s, n, v) ==
    /\ slots[s] # 0
    /\ heap[slots[s]].struct = "Function"
    /\ \E m \in {Environment_set(Mem, heap[slots[s]].env, n, v)} : scopes' = m.scopes
    /\ out' = [op |-> "bind", slot |-> s]
    /\ UNCHANGED <<heap, slots, origin>>

(***************************************************************************)
(* Specifications                                                          *)
(***************************************************************************)

\* Composite values built, duplicated and mutated in place.
ElementInputs == {Int1, Int2, EmptyArray, EmptyHash}

Next ==
    \/ \E s \in Slots, o \in {Int1, EmptyArray, EmptyHash} : NewValue(s, o)
    \/ \E s \in Slots : \E a \in ArraysOf(s) : \E o \in ElementInputs : ArrayPush(s, a, o)
    \/ \E s \in Slots : \E a \in ArraysOf(s) : \E i \in 1..MaxElems, o \in ElementInputs :
          ArraySet(s, a, i, o)
    \/ \E s \in Slots : \E a \in ArraysOf(s) : \E i \in 1..MaxElems : ArrayRemove(s, a, i)
    \/ \E s \in Slots : \E a \in HashesOf(s) :
       \E value \in {Int2, EmptyArray}, place \in 1..(MaxPairs + 1), ambient \in Ambients :
          HashInsert(s, a, Int1, value, place, ambient)
    \/ \E s, t \in Slots : CloneValue(s, t)
    \/ \E s \in Slots : DropValue(s)

Spec == Init /\ [][Next]_vars

\* Maps filled by insertion.
MapKeyInputs == {Int0, Int1, IntMinus1, StrA, StrB} \cup Booleans

NextMap ==
    \/ \E s \in Slots : NewValue(s, EmptyHash)
    \/ \E s \in Slots : \E a \in HashesOf(s) :
       \E key \in MapKeyInputs, value \in {StrA, StrB},
          place \in 1..(MaxPairs + 1), ambient \in Ambients :
          HashInsert(s, a, key, value, place, ambient)
    \/ \E s \in Slots : DropValue(s)

SpecMap == Init /\ [][NextMap]_vars

\* Closures duplicated, and bindings made in the scopes they captured.
NextFn ==
    \/ \E s \in Slots, e \in Envs : NewValue(s, FunctionObj(e))
    \/ \E s, t \in Slots : CloneValue(s, t)
    \/ \E s \in Slots, n \in Names, v \in Bindings : Bind(s, n, v)
    \/ \E s \in Slots : DropValue(s)

SpecFn == Init /\ [][NextFn]_vars

\* One value of any of the ten kinds, nested, and rendered.
KindInputs ==
    {Int42, IntMinus1, NullObj, Boolean(TRUE), ErrorObj, FunctionObj(1), StrA,
     BuiltinObj, EmptyArray, EmptyHash}

NextInspect ==
    \/ \E o \in KindInputs : NewValue(1, o)
    \/ WrapReturn(1)
    \/ WrapArray(1)
    \/ \E a \in ArraysOf(1) : \E o \in {Int1, Int2, StrA, EmptyArray} : ArrayPush(1, a, o)
    \/ \E a \in HashesOf(1) :
       \E key \in {Int1, StrA}, value \in {Int2, EmptyArray},
          place \in 1..(MaxPairs + 1), ambient \in Ambients :
          HashInsert(1, a, key, value, place, ambient)
    \/ \E ambient \in Ambients : Inspect(1, ambient)
    \/ DropValue(1)

SpecInspect == Init /\ [][NextInspect]_vars

\* hash_key applied to two values constructed independently of each other.
HashInputs == AllIntegers \cup Booleans \cup AllStrings

InitHash ==
    /\ \E x, y \in HashInputs :
          heap = [a \in Addr |-> IF a = 1 THEN x ELSE IF a = 2 THEN y ELSE FreeCell]
    /\ scopes = [e \in Envs |-> [n \in Names |-> 0]]
    /\ slots = [s \in Slots |-> IF s <= 2 THEN s ELSE 0]
    /\ origin = [s \in Slots |-> 0]
    /\ out = None

NextHash == \E s \in Slots, ambient \in Ambients : HashKeyOf(s, ambient)

SpecHash == InitHash /\ [][NextHash]_vars

(***************************************************************************)
(* Properties                                                              *)
(***************************************************************************)

\* The Hash boxes of the heap.
HashCells == {a \in Addr : heap[a].struct = "Hash"}

UniqueKeys ==
    \A a \in HashCells :
       \A i, j \in 1..Len(heap[a].pairs) :
          i # j => heap[a].pairs[i].k.value # heap[a].pairs[j].k.value

\* Right after an insertion the map holds exactly one pair under the inserted
\* HashKey, and it is the pair just inserted.
LastWriteStored ==
    out.op = "insert" =>
       LET pairs == heap[out.cell].pairs
           at == {i \in 1..Len(pairs) : pairs[i].k.value = out.key.value}
       IN  /\ Cardinality(at) = 1
           /\ \A i \in at :
                 /\ Tree(heap, pairs[i].v.key) = out.pair.key
                 /\ Tree(heap, pairs[i].v.value) = out.pair.value

\* The pairs of the map bound to slot s, by HashKey, as values.
PairsOf(h, sl, s) ==
    IF sl[s] = 0 \/ h[sl[s]].struct # "Hash" THEN {}
    ELSE {[k |-> e.k.value, key |-> Tree(h, e.v.key), value |-> Tree(h, e.v.value)] :
             e \in Range(h[sl[s]].pairs)}

\* A step changes the pair under a HashKey only by inserting with that HashKey.
OnlyInsertWrites ==
    \A s \in Slots :
       slots[s] # 0 /\ slots'[s] # 0 =>
          /\ \A e \in PairsOf(heap, slots, s) :
                e \in PairsOf(heap', slots', s)
                \/ (out'.op = "insert" /\ out'.slot = s /\ out'.key.value = e.k)
          /\ \A e \in PairsOf(heap', slots', s) :
                e \in PairsOf(heap, slots, s)
                \/ (/\ out'.op = "insert" /\ out'.slot = s /\ out'.key.value = e.k
                    /\ e.key = out'.pair.key /\ e.value = out'.pair.value)

\* C1: whatever pairs are inserted, a Map holds at most one pair per HashKey, and
\* the pair under a HashKey is the one of the latest insertion with that HashKey:
\* an insertion stores its pair under its key in place of any earlier one, and
\* no other step changes the pair under a key.
C1_LastWriteWins == [][UniqueKeys' /\ LastWriteStored' /\ OnlyInsertWrites]_vars

\* Integer{1} -> String{"a"} was replaced by Integer{1} -> String{"b"}: one pair is left.
C1_Witness ==
    /\ out.op = "insert"
    /\ out.old # None
    /\ out.old = [key |-> Int1, value |-> StrA]
    /\ out.pair = [key |-> Int1, value |-> StrB]
    /\ Len(heap[out.cell].pairs) = 1

\* The two values whose keys the last two hash_key calls returned.
HashedNow == heap[slots[out.slot]]

HashedBefore == heap[slots[out.prev.slot]]

TwoKeys == out.op = "hash_key" /\ out.prev # None

\* C2: two hashable values of the same kind with the same content get equal
\* HashKeys, also when they are two instances constructed independently.
C2_EqualContentEqualKey ==
    TwoKeys /\ HashedNow.struct = HashedBefore.struct /\ HashedNow.value = HashedBefore.value
       => out.key = out.prev.key

\* Two separate StringObj { "Hello World" } instances were hashed to the same key.
C2_Witness ==
    /\ TwoKeys
    /\ out.slot # out.prev.slot
    /\ HashedNow = StringObj(<<72, 101, 108, 108, 111, 32, 87, 111, 114, 108, 100>>)
    /\ HashedBefore = HashedNow
    /\ out.key = out.prev.key

\* C3: the HashKey of Integer{n} is n mod 2^64 (n itself when n >= 0, n + 2^64 when
\* n < 0, that is key + |n| = 2^64), and two different integers get different keys.
C3_IntegerKey ==
    out.op = "hash_key" /\ HashedNow.struct = "Integer" =>
       LET n == HashedNow.value
       IN  /\ ~n.neg => out.key.value = n.mag
           /\ n.neg => /\ Add64(out.key.value, n.mag) = Zero64
                       /\ Carry64(out.key.value, n.mag) = 1
           /\ (out.prev # None /\ HashedBefore.struct = "Integer"
                  /\ HashedBefore.value # n) => out.key.value # out.prev.key.value

\* Integer{-1} hashed to 2^64 - 1 after Integer{1} hashed to 1.
C3_Witness ==
    /\ TwoKeys
    /\ HashedNow = IntMinus1 /\ HashedBefore = Int1
    /\ out.key.value = <<Limb - 1, Limb - 1, Limb - 1, Limb - 1>>
    /\ out.prev.key.value = One64

\* C6: the HashKey of Boolean{false} is 0 and of Boolean{true} is 1, so the two differ.
C6_BooleanKey ==
    out.op = "hash_key" /\ HashedNow.struct = "Boolean" =>
       /\ out.key.value = IF HashedNow.value THEN <<1, 0, 0, 0>> ELSE <<0, 0, 0, 0>>
       /\ (out.prev # None /\ HashedBefore.struct = "Boolean"
              /\ HashedBefore.value # HashedNow.value) => out.key # out.prev.key

\* Boolean{true} was hashed after Boolean{false}.
C6_Witness ==
    /\ TwoKeys
    /\ HashedNow = Boolean(TRUE) /\ HashedBefore = Boolean(FALSE)
    /\ out.key.value = One64

\* A mutation through one of two bindings of which one is the clone of the other.
MutatedBeside(t) ==
    /\ out'.op \in {"mutate", "insert"}
    /\ t # out'.slot
    /\ slots[t] # 0
    /\ origin[t] = out'.slot \/ origin[out'.slot] = t

\* C4: a cloned Array is a deep copy: whatever is replaced, appended or removed in
\* the duplicate, at the top or in a nested Array or Map, the original's elements
\* and rendering stay as they were; and the same with the two exchanged.
C4_CloneIsDeepCopy ==
    [][\A t \in Slots :
          MutatedBeside(t) =>
             /\ slots'[t] # 0
             /\ Tree(heap', slots'[t]) = Tree(heap, slots[t])
             /\ inspect(heap', slots'[t], 0) = inspect(heap, slots[t], 0)]_vars

\* A Map nested in the duplicate of an Array took a pair; the original has none.
C4_Witness ==
    /\ out.op = "insert"
    /\ origin[out.slot] # 0
    /\ slots[origin[out.slot]] # 0
    /\ heap[slots[out.slot]].struct = "Array"
    /\ out.cell # slots[out.slot]
    /\ Tree(heap, slots[origin[out.slot]]) = [struct |-> "Array", elements |-> <<EmptyHash>>]

\* C5: a cloned Function shares the captured scope: a binding made in the scope
\* through the original or through the duplicate is what both then look up.
C5_CloneSharesScope ==
    \A s, t \in Slots :
       (/\ origin[t] = s /\ slots[s] # 0 /\ slots[t] # 0
        /\ heap[slots[s]].struct = "Function" /\ heap[slots[t]].struct = "Function")
       => \A n \in Names :
             Environment_get(Mem, heap[slots[t]].env, n)
                = Environment_get(Mem, heap[slots[s]].env, n)

\* x was bound through the duplicate and is looked up through the original.
C5_Witness ==
    \E s, t \in Slots :
       /\ origin[t] = s /\ slots[s] # 0 /\ slots[t] # 0
       /\ out.op = "bind" /\ out.slot = t
       /\ Environment_get(Mem, heap[slots[s]].env, "x") = 1

\* C7: inspect changes nothing, and called again on the same value, with nothing
\* done in between, it returns the same text, whatever the kind of the value
\* and whatever the state of the process outside it.
C7_InspectPure ==
    [][out'.op = "inspect" =>
          /\ heap' = heap /\ slots' = slots /\ scopes' = scopes
          /\ out'.again => out'.text = out.text]_vars

\* A Map of two pairs was rendered twice in a row.
C7_Witness ==
    /\ out.op = "inspect" /\ out.again
    /\ heap[slots[out.slot]].struct = "Hash"
    /\ Len(heap[slots[out.slot]].pairs) = 2

\* The renderings of the boxes es, each but the first after ", ".
RECURSIVE CommaSeparated(_, _)
CommaSeparated(h, es) ==
    IF es = <<>> THEN <<>>
    ELSE LET front == SubSeq(es, 1, Len(es) - 1)
         IN  CommaSeparated(h, front)
             \o (IF front = <<>> THEN <<>> ELSE <<44, 32>>)
             \o inspect(h, es[Len(es)], 0)

ArrayCells == {a \in Addr : heap[a].struct = "Array"}

\* C8: an Array renders as "[", its elements' renderings in index order joined by
\* ", ", and "]", nested elements likewise; the empty Array as "[]" and
\* [Integer{1}, Integer{2}] as "[1, 2]".
C8_ArrayRendering ==
    /\ \A a \in ArrayCells :
          /\ inspect(heap, a, 0) = <<91>> \o CommaSeparated(heap, heap[a].elements) \o <<93>>
          /\ heap[a].elements = <<>> => inspect(heap, a, 0) = <<91, 93>>
          /\ Tree(heap, a).elements = <<Int1, Int2>>
                => inspect(heap, a, 0) = <<91, 49, 44, 32, 50, 93>>
    /\ (out.op = "inspect" /\ heap[slots[out.slot]].struct = "Array") =>
          out.text = <<91>> \o CommaSeparated(heap, heap[slots[out.slot]].elements) \o <<93>>

\* [Integer{1}, Integer{2}] was rendered as "[1, 2]".
C8_Witness ==
    /\ out.op = "inspect"
    /\ Tree(heap, slots[out.slot]) = [struct |-> "Array", elements |-> <<Int1, Int2>>]
    /\ out.text = <<91, 49, 44, 32, 50, 93>>

\* The box inside every ReturnValue layer around box a.
RECURSIVE Innermost(_, _)
Innermost(h, a) == IF h[a].struct = "ReturnValue" THEN Innermost(h, h[a].value) ELSE a

ReturnCells == {a \in Addr : heap[a].struct = "ReturnValue"}

\* C9: a ReturnValue renders as the value it wraps, at any depth of wrapping, and
\* its type tag is ReturnValue whatever it wraps.
C9_ReturnValueRendering ==
    /\ \A a \in ReturnCells :
          /\ inspect(heap, a, 0) = inspect(heap, heap[a].value, 0)
          /\ inspect(heap, a, 0) = inspect(heap, Innermost(heap, a), 0)
          /\ object_type(heap[a]) = "ReturnValue"
          /\ as_str(object_type(heap[a])) = "RETURN_VALUE"
          /\ heap[heap[a].value].struct # "ReturnValue"
                => object_type(heap[a]) # object_type(heap[heap[a].value])
    /\ (out.op = "inspect" /\ heap[slots[out.slot]].struct = "ReturnValue") =>
          out.text = inspect(heap, Innermost(heap, slots[out.slot]), 0)

\* ReturnValue{ReturnValue{Integer{42}}} was rendered as "42".
C9_Witness ==
    /\ out.op = "inspect"
    /\ Tree(heap, slots[out.slot])
          = [struct |-> "ReturnValue", value |-> [struct |-> "ReturnValue", value |-> Int42]]
    /\ out.text = <<52, 50>>

\* Integer{n} and Boolean{b} have the same numeric identity: 1 and true, 0 and false.
Coincide(x, y) ==
    \/ x.struct = "Integer" /\ y.struct = "Boolean"
       /\ ((x = Int1 /\ y.value) \/ (x = Int0 /\ ~y.value))
    \/ x.struct = "Boolean" /\ y.struct = "Integer"
       /\ ((y = Int1 /\ x.value) \/ (y = Int0 /\ ~x.value))

Mixed(x, y) == {x.struct, y.struct} = {"Integer", "Boolean"}

\* An insertion of an Integer key into a map that holds Boolean keys, or the
\* reverse: the new HashKey equals an old one exactly when the two coincide, and
\* then the old pair is the one replaced.
MixedInsert ==
    out'.op = "insert" =>
       \A e \in PairsOf(heap, slots, out'.slot) :
          Mixed(e.key, out'.pair.key) =>
             /\ (e.k = out'.key.value) <=> Coincide(e.key, out'.pair.key)
             /\ Coincide(e.key, out'.pair.key) =>
                   /\ out'.old # None /\ out'.old.key = e.key
                   /\ Len(heap'[slots'[out'.slot]].pairs) = Len(heap[slots[out'.slot]].pairs)

\* No map holds Integer{1} beside Boolean{true}, or Integer{0} beside Boolean{false}.
NeverBoth ==
    \A s \in Slots :
       \A e, f \in PairsOf(heap, slots, s) : ~Coincide(e.key, f.key)

\* C10: a HashKey carries no kind: the keys of Integer{n} and Boolean{b} are equal
\* exactly when n = 1 and b = true, or n = 0 and b = false; so a Map never holds
\* both of such a couple, and inserting one after the other replaces the first.
C10_KindsCollide == [][MixedInsert /\ NeverBoth']_vars

\* Boolean{true} was inserted into a map that held Integer{1}, and replaced it.
C10_Witness ==
    /\ out.op = "insert"
    /\ out.old # None
    /\ out.old.key = Int1
    /\ out.pair.key = Boolean(TRUE)
    /\ Len(heap[out.cell].pairs) = 1

====
